---- MODULE Spec2Model ----
(***************************************************************************)
(* A model of src/models/model_layers.py: the layers (AttentionLayer,      *)
(* SparseLogisticRegression) and the GraphNetwork orchestrator: its        *)
(* construction, forward pass, gradient capture, representation capture    *)
(* and tolerant parameter import.                                          *)
(*                                                                         *)
(* Tensors are modelled by their shapes (sequences of sizes); the values   *)
(* that matter (the adjacency, the Laplacian, attention weights, dropout   *)
(* probabilities) are modelled exactly, in integer or rational arithmetic. *)
(***************************************************************************)
EXTENDS Integers, Sequences, FiniteSets, TLC

VARIABLES adj,        \* the caller's adjacency array (shared by reference)
          slr,        \* the SparseLogisticRegression object
          slrOut,     \* what the last call on slr returned
          cfg,        \* the arguments GraphNetwork is constructed with
          net,        \* the GraphNetwork object
          fwd,        \* outcome of the last GraphNetwork.forward call
          grads,      \* GraphNetwork.grads, the gradient capture store
          nbwd,       \* number of backward passes run so far
          rep,        \* outcome of the last get_representation call
          own_state,  \* the GraphNetwork's parameters, by name
          load,       \* outcome of the last load_state_dict call
          att         \* outcome of the last AttentionLayer.forward call

vars == <<adj, slr, slrOut, cfg, net, fwd, grads, nbwd, rep, own_state, load, att>>

(***************************************************************************)
(* Bounds of the model.                                                    *)
(***************************************************************************)
NbNodes == 3        \* nodes of the adjacency
MaxWeight == 1      \* largest adjacency entry
MaxEdges == 4       \* most nonzero off-diagonal entries of an adjacency
MaxExamples == 2    \* largest batch
MaxLayers == 2      \* longest channels list of the forward specification
MaxDepth == 5       \* longest channels list of the construction specification
MaxWidth == 2       \* largest channel width
MaxExtra == 1       \* largest prepool_extralayers
MaxHeads == 2       \* largest attention_head
MaxScore == 2       \* largest unnormalised attention score
MaxPasses == 2      \* most backward passes
MaxEntries == 2     \* most items of a source mapping given to load_state_dict

Nodes == 1..NbNodes

Min(a, b) == IF a < b THEN a ELSE b

RECURSIVE SumOver(_, _)
SumOver(f, S) ==
    IF S = {} THEN 0
    ELSE LET k == CHOOSE k \in S : TRUE IN f[k] + SumOver(f, S \ {k})

(***************************************************************************)
(* SparseLogisticRegression                                                *)
(***************************************************************************)

\* 1e-5, the epsilon added to the degree vector, is one unit of the degree
\* scale: a degree d is the integer d * EpsScale + 1.
EpsScale == 100000

OffDiag == {p \in Nodes \X Nodes : p[1] # p[2]}

\* The adjacency arrays a caller may supply: square, nonnegative entries, a
\* self-loop weight d on every node, and nonzero entries w on the
\* off-diagonal positions S (symmetric or not).
AdjOf(S, w, d) ==
    [i \in Nodes |-> [j \in Nodes |->
        IF i = j THEN d ELSE IF <<i, j>> \in S THEN w[<<i, j>>] ELSE 0]]

\* The off-diagonal positions that may hold an entry: any at most MaxEdges
\* of them, or the directed ring 1 -> 2 -> ... -> n -> 1.
EdgeSets == {T \in SUBSET OffDiag : Cardinality(T) <= MaxEdges}
Ring == {p \in OffDiag : p[2] = (p[1] % NbNodes) + 1}

\* np.fill_diagonal(adj, 0.): in place, on the caller's array.
FillDiagonalRowWise(a) == [i \in Nodes |-> [j \in Nodes |-> IF j >= i THEN 0 ELSE a[i][j]]]
FillDiagonal(a) == [i \in Nodes |-> [j \in Nodes |-> IF i = j THEN 0 ELSE a[i][j]]]

\* D = adj.sum(0) + 1e-5: column sums, in units of 1e-5.
Degree(a) == [j \in Nodes |-> SumOver([i \in Nodes |-> a[i][j]], Nodes) * EpsScale + 1]

\* An entry of the Laplacian is  id - num * D[l]^-1/2 * D[r]^-1/2, kept exact
\* as the record [id, num, l, r] (l, r: the nodes whose degree scales it).
\* laplacian = np.eye(n) - np.diag(D**-0.5).dot(adj).dot(np.diag(D**-0.5)):
\* the diagonal matrices scale row i by D[i]^-1/2 and column j by D[j]^-1/2.
LaplacianRowNormalised(a) ==
    [i \in Nodes |-> [j \in Nodes |->
        [id |-> IF i = j THEN 1 ELSE 0, num |-> a[i][j], l |-> i, r |-> i]]]
Laplacian(a) ==
    [i \in Nodes |-> [j \in Nodes |->
        [id |-> IF i = j THEN 1 ELSE 0, num |-> a[i][j], l |-> i, r |-> j]]]

\* num^2 * D[l] * D[r] as a polynomial in EpsScale, <<c2, c1, c0>>, where
\* D[k] = s[k] * EpsScale + 1; every coefficient stays far below EpsScale, so
\* two such numbers are equal exactly when their coefficients are.
ScaledSquare(n, D, l, r) ==
    LET sl == (D[l] - 1) \div EpsScale
        sr == (D[r] - 1) \div EpsScale
    IN  <<n * n * sl * sr, n * n * (sl + sr), n * n>>

\* Two Laplacian entries are the same number:
\* n1/sqrt(D[l1] D[r1]) = n2/sqrt(D[l2] D[r2]), with n1, n2 >= 0.
SameEntry(e1, e2, D) ==
    /\ e1.id = e2.id
    /\ ScaledSquare(e1.num, D, e2.l, e2.r) = ScaledSquare(e2.num, D, e1.l, e1.r)

NoSlr == [built |-> FALSE, nb_nodes |-> 0, input_dim |-> 0, out_dim |-> 0,
          degree |-> [i \in Nodes |-> 1], laplacian |-> Laplacian([i \in Nodes |-> [j \in Nodes |-> 0]])]
NoOut == [op |-> "none", ok |-> TRUE, shape |-> <<>>]

(***************************************************************************)
(* GraphNetwork: construction                                              *)
(***************************************************************************)

\* Python values of the dropout argument, in tenths: False (0), 0.5, True
\* (1) and 2. int() truncates; a value is truthy when it is not zero.
DropoutValues == {0, 5, 10, 20}
PyInt(d) == d \div 10
Truthy(d) == d # 0

None == [none |-> TRUE, in_dim |-> 0, p |-> 0]

Last(s) == s[Len(s)]

\* self.dims = [self.input_dim] + self.channels, input_dim being the
\* embedding size when an embedding is configured.
EffectiveInputDim(c) == IF c.embedding # 0 THEN c.embedding ELSE c.input_dim
Dims(c) == <<EffectiveInputDim(c)>> \o c.channels

\* One pass of the loop of add_graph_convolutional_layers, for the pair
\* (dims[i], dims[i+1]) (i from 0): prepool_extralayers same-width layers
\* when aggregate_adj is given, none of them with the save-hook, then the
\* width-changing layer with it.
ConvLayersOfPair(c, dims, i) ==
    LET extra == [c_in |-> dims[i + 1], c_out |-> dims[i + 1], id_layer |-> i,
                  extra |-> TRUE, hooked |-> FALSE]
        main  == [c_in |-> dims[i + 1], c_out |-> dims[i + 2], id_layer |-> i,
                  extra |-> FALSE, hooked |-> TRUE]
    IN  (IF c.aggregate_adj THEN [k \in 1..c.prepool_extralayers |-> extra] ELSE <<>>)
        \o <<main>>

RECURSIVE ConvLayersFrom(_, _, _)
ConvLayersFrom(c, dims, i) ==
    IF i >= Len(dims) - 1 THEN <<>>
    ELSE ConvLayersOfPair(c, dims, i) \o ConvLayersFrom(c, dims, i + 1)

AddGraphConvolutionalLayers(c) == ConvLayersFrom(c, Dims(c), 0)

\* add_logistic_layer: the classifier's input width.
LogisticInDim(c) ==
    IF c.attention_head > 0 THEN c.attention_head * Last(Dims(c))
    ELSE NbNodes * Last(Dims(c))

\* add_gating_layers: one ElementwiseGateLayer(c_in) per entry of channels
\* when gating > 0, else len(dims) - 1 entries None.
AddGatingLayers(c) ==
    IF c.gating > 0
    THEN [k \in 1..Len(c.channels) |-> [none |-> FALSE, in_dim |-> c.channels[k], p |-> 0]]
    ELSE [k \in 1..(Len(Dims(c)) - 1) |-> None]

\* The probability of the dropout stage id_layer, in tenths:
\* int(self.dropout) * min((id_layer + 1) / 10., 0.4).
DropoutProbabilityUncapped(dropout, id_layer) == PyInt(dropout) * (id_layer + 1)
DropoutProbability(dropout, id_layer) == PyInt(dropout) * Min(id_layer + 1, 4)

\* add_dropout_layers: len(dims) - 1 entries None, replaced by Dropout
\* modules when self.dropout is truthy.
AddDropoutLayers(c) ==
    IF Truthy(c.dropout)
    THEN [k \in 1..(Len(Dims(c)) - 1) |->
            [none |-> FALSE, in_dim |-> 0, p |-> DropoutProbability(c.dropout, k - 1)]]
    ELSE [k \in 1..(Len(Dims(c)) - 1) |-> None]

\* torch.nn.Dropout(p) raises ValueError unless 0 <= p <= 1.
DropoutRaises(c) ==
    \E k \in 1..Len(AddDropoutLayers(c)) : AddDropoutLayers(c)[k].p > 10

\* AttentionLayer(self.channels[-1], attention_head): channels[-1] raises
\* IndexError on an empty list.
AttentionRaises(c) == c.attention_head # 0 /\ Len(c.channels) = 0

NoNet == [built |-> FALSE, exc |-> "none", nb_nodes |-> 0, out_dim |-> 0, has_emb |-> FALSE,
          emb_size |-> 0, conv_layers |-> <<>>, gating_layers |-> <<>>,
          dropout_layers |-> <<>>, logistic_in_dim |-> 0, has_attention |-> FALSE,
          attention_in_dim |-> 0]

\* GraphNetwork.__init__.
Build(c) ==
    IF DropoutRaises(c) THEN [NoNet EXCEPT !.exc = "ValueError"]
    ELSE IF AttentionRaises(c) THEN [NoNet EXCEPT !.exc = "IndexError"]
    ELSE [built |-> TRUE, exc |-> "none",
          nb_nodes |-> NbNodes,
          out_dim |-> IF c.out_dim = 0 THEN 2 ELSE c.out_dim,
          has_emb |-> c.embedding # 0,
          emb_size |-> c.embedding,
          conv_layers |-> AddGraphConvolutionalLayers(c),
          gating_layers |-> AddGatingLayers(c),
          dropout_layers |-> AddDropoutLayers(c),
          logistic_in_dim |-> LogisticInDim(c),
          has_attention |-> c.attention_head # 0,
          attention_in_dim |-> IF c.attention_head # 0 THEN Last(c.channels) ELSE 0]

(***************************************************************************)
(* GraphNetwork: the forward pass                                          *)
(***************************************************************************)

Max(a, b) == IF a > b THEN a ELSE b

\* A pass in progress: the shape of x, the steps run so far (trace), the
\* names under which gradient hooks were registered on tensors of this
\* pass (hooks), and the modules whose forward hook save_computations
\* fired (saved). A step that raises ends the pass.
StartPass(shape) ==
    [ok |-> TRUE, exc |-> "none", shape |-> shape, trace |-> <<>>, hooks |-> <<>>,
     saved |-> {}]
Raise(st, e) == [st EXCEPT !.ok = FALSE, !.exc = e]
Step(st, shape, event) == [st EXCEPT !.shape = shape, !.trace = Append(@, event)]
RegisterHook(st, name) ==
    [st EXCEPT !.hooks = Append(@, name), !.trace = Append(@, <<"save_grad", name>>)]
Saved(st, module) == [st EXCEPT !.saved = @ \cup {module}]
SavedIf(hooked, st, module) == IF hooked THEN Saved(st, module) ELSE st
HookIfOk(st, name) == IF st.ok THEN RegisterHook(st, name) ELSE st

\* EmbeddingLayer.forward: x * self.emb, x of shape (E, N, C) against the
\* table of shape (nb_nodes, emb_size), broadcast from the right: sizes
\* must be equal or one of them 1.
EmbeddingForward(n, st) ==
    LET x == st.shape IN
    IF /\ (x[3] = n.emb_size \/ x[3] = 1 \/ n.emb_size = 1)
       /\ (x[2] = n.nb_nodes \/ x[2] = 1 \/ n.nb_nodes = 1)
    THEN Saved(Step(st, <<x[1], Max(x[2], n.nb_nodes), Max(x[3], n.emb_size)>>,
                    <<"emb", 0>>), <<"emb", 0>>)
    ELSE Raise(st, "RuntimeError")

\* The injected graph layer (graph_layers.py): maps (E, N, c_in) to
\* (E, N, c_out), and fails on any other input width.
GraphLayerForward(layer, k, st) ==
    LET x == st.shape IN
    IF x[3] = layer.c_in
    THEN SavedIf(layer.hooked, Step(st, <<x[1], x[2], layer.c_out>>, <<"conv", k - 1>>),
                 <<"conv", k - 1>>)
    ELSE Raise(st, "RuntimeError")

\* ElementwiseGateLayer.forward and g * x: the gate's Linear(in_dim, 1)
\* takes x.view(-1, C); the gate (E, N, 1) broadcasts over x.
GateForward(gate, i, st) ==
    LET x == st.shape IN
    IF x[3] = gate.in_dim
    THEN Saved(Step(st, x, <<"gate", i>>), <<"gate", i>>)
    ELSE Raise(st, "RuntimeError")

\* The body of the loop of forward for the i-th triple (i from 0) of
\* zip(conv_layers, gating_layers, dropout_layers): the layer, the gate
\* when gating > 0, relu and the gradient hook, the dropout mask when the
\* dropout entry is not None.
GateStep(n, c, i, st) ==
    IF ~st.ok \/ ~(c.gating > 0) THEN st ELSE GateForward(n.gating_layers[i + 1], i, st)
ReluStep(i, st) ==
    IF ~st.ok THEN st ELSE RegisterHook(Step(st, st.shape, <<"relu", i>>), <<"layer", i>>)
DropoutStep(n, i, st) ==
    IF ~st.ok \/ n.dropout_layers[i + 1].none THEN st
    ELSE Step(st, st.shape, <<"dropout", i>>)
Stage(n, c, i, st) ==
    DropoutStep(n, i, ReluStep(i, GateStep(n, c, i,
        GraphLayerForward(n.conv_layers[i + 1], i + 1, st))))

\* zip stops at the shortest of its arguments.
ZipLen3(a, b, c) == Min(Len(a), Min(Len(b), Len(c)))

RECURSIVE Stages(_, _, _, _, _)
Stages(n, c, i, len, st) ==
    IF i >= len \/ ~st.ok THEN st
    ELSE Stages(n, c, i + 1, len, Stage(n, c, i, st))

\* AttentionLayer.forward as GraphNetwork uses it: Linear(in_dim, H) on
\* x.view(-1, C); the pooled output is (E, C * H).
AttentionPool(n, c, st) ==
    LET x == st.shape IN
    IF x[3] = n.attention_in_dim
    THEN Saved(Step(st, <<x[1], x[3] * c.attention_head>>, <<"attention", 0>>),
               <<"attention", 0>>)
    ELSE Raise(st, "RuntimeError")

RECURSIVE Product(_)
Product(s) == IF s = <<>> THEN 1 ELSE Head(s) * Product(Tail(s))

\* self.my_logistic_layers[-1](x.view(nb_examples, -1)) and the hook on
\* its output.
LogisticForward(n, nb_examples, st) ==
    LET flat == Product(st.shape) \div nb_examples IN
    IF flat = n.logistic_in_dim
    THEN RegisterHook(Saved(Step(st, <<nb_examples, n.out_dim>>, <<"logistic", 0>>),
                            <<"logistic", 0>>), <<"logistic", 0>>)
    ELSE Raise(st, "RuntimeError")

\* GraphNetwork.forward on an input of shape x.
EmbeddingStep(n, c, st) ==
    IF c.embedding # 0 THEN HookIfOk(EmbeddingForward(n, st), <<"emb", 0>>) ELSE st
AttentionStep(n, c, st) ==
    IF st.ok /\ c.attention_head # 0 THEN AttentionPool(n, c, st) ELSE st
LogisticStep(n, nb_examples, st) ==
    IF st.ok THEN LogisticForward(n, nb_examples, st) ELSE st
Forward(n, c, x) ==
    LogisticStep(n, x[1],
        AttentionStep(n, c,
            Stages(n, c, 0, ZipLen3(n.conv_layers, n.gating_layers, n.dropout_layers),
                   EmbeddingStep(n, c, StartPass(x)))))

NoFwd == [called |-> FALSE, graph |-> FALSE, input |-> <<>>] @@ StartPass(<<>>)

(***************************************************************************)
(* GraphNetwork: gradient capture                                          *)
(***************************************************************************)

\* self.grads is a dict; it is modelled as the set of its items
\* [name, grad]. The hook made by save_grad(name):
\* self.grads[name] = grad.
SaveGradAppend(store, name, grad) == store \cup {[name |-> name, grad |-> grad]}
SaveGrad(store, name, grad) ==
    {e \in store : e.name # name} \cup {[name |-> name, grad |-> grad]}

\* A backward pass through the graph of the last forward call runs the hook
\* of every tensor of that graph, the last registered first.
RECURSIVE RunHooks(_, _, _)
RunHooks(store, hooks, grad) ==
    IF hooks = <<>> THEN store
    ELSE RunHooks(SaveGrad(store, Last(hooks), grad), SubSeq(hooks, 1, Len(hooks) - 1), grad)

(***************************************************************************)
(* GraphNetwork: representation capture                                    *)
(***************************************************************************)

\* The attributes a constructed GraphNetwork has: those __init__ and the
\* add_* methods assign, and the methods of the class.
InstanceAttributes(n) ==
    {"my_layers", "out_dim", "cuda", "adj", "nb_nodes", "channels", "embedding",
     "graph_layer_type", "aggregate_adj", "transform_adj", "dropout", "attention_head",
     "master_nodes", "prepool_extralayers", "input_dim", "gating", "dims", "conv_layers",
     "my_logistic_layers", "gating_layers", "dropout_layers", "grads", "save_grad",
     "add_embedding_layer", "add_dropout_layers", "add_graph_convolutional_layers",
     "add_gating_layers", "add_logistic_layer", "forward", "get_representation",
     "load_state_dict"}
    \cup (IF n.has_emb THEN {"emb"} ELSE {})
    \cup (IF n.has_attention THEN {"attention_layer"} ELSE {})

NoRep == [called |-> FALSE, ok |-> TRUE, exc |-> "none", keys |-> {}]

\* add_rep reads layer.input and layer.output, which exist once the
\* module's forward hook save_computations has fired.
RepresentationModules(n, c) ==
    LET len == Min(Len(n.conv_layers), Len(n.gating_layers)) IN
    (IF n.has_emb THEN {[key |-> <<"emb", 0>>, module |-> <<"emb", 0>>]} ELSE {})
    \cup {[key |-> <<"layer", i>>, module |-> <<"conv", i>>] : i \in 0..(len - 1)}
    \cup (IF c.gating > 0
          THEN {[key |-> <<"gate", i>>, module |-> <<"gate", i>>] : i \in 0..(len - 1)}
          ELSE {})
    \cup {[key |-> <<"logistic", 0>>, module |-> <<"logistic", 0>>]}
    \cup (IF c.attention_head # 0
          THEN {[key |-> <<"attention", 0>>, module |-> <<"attention", 0>>]} ELSE {})

\* GraphNetwork.get_representation: its first statement reads self.add_emb.
GetRepresentation(n, c, saved) ==
    IF "add_emb" \notin InstanceAttributes(n)
    THEN [called |-> TRUE, ok |-> FALSE, exc |-> "AttributeError", keys |-> {}]
    ELSE IF \E m \in RepresentationModules(n, c) : m.module \notin saved
    THEN [called |-> TRUE, ok |-> FALSE, exc |-> "AttributeError", keys |-> {}]
    ELSE [called |-> TRUE, ok |-> TRUE, exc |-> "none",
          keys |-> {m.key : m \in RepresentationModules(n, c)}]

(***************************************************************************)
(* GraphNetwork: parameter import                                          *)
(***************************************************************************)

\* self.state_dict(): the parameters of the registered sub-modules, one
\* name per module that has parameters.
OwnNames(n, c) ==
    (IF n.has_emb THEN {<<"emb", 0>>} ELSE {})
    \cup {<<"conv", k - 1>> : k \in 1..Len(n.conv_layers)}
    \cup (IF c.gating > 0 THEN {<<"gate", k - 1>> : k \in 1..Len(n.gating_layers)} ELSE {})
    \cup {<<"logistic", 0>>}
    \cup (IF n.has_attention THEN {<<"attention", 0>>} ELSE {})

\* The state at construction: every parameter holds its initial value 0.
InitialState(n, c) == {[name |-> nm, value |-> 0] : nm \in OwnNames(n, c)}

\* What own_state[name].copy_(param) does with a source value: "none" (a
\* tensor of the same shape: copied), RuntimeError (a tensor of another
\* shape), AttributeError (a parameter without copy_), TypeError (a value
\* that is no tensor).
CopyOutcomes == {"none", "RuntimeError", "AttributeError", "TypeError"}

\* except (AttributeError, RuntimeError): pass
CaughtNothing == {}
Caught == {"AttributeError", "RuntimeError"}

CopyInto(state, name, value) ==
    {e \in state : e.name # name} \cup {[name |-> name, value |-> value]}

\* The loop of load_state_dict from the i-th item of the source mapping.
RECURSIVE LoadFrom(_, _, _)
LoadFrom(state, source, i) ==
    IF i > Len(source) THEN [state |-> state, exc |-> "none"]
    ELSE LET entry == source[i] IN
         IF entry.name \notin {e.name : e \in state} THEN LoadFrom(state, source, i + 1)
         ELSE IF entry.raises = "none"
         THEN LoadFrom(CopyInto(state, entry.name, entry.value), source, i + 1)
         ELSE IF entry.raises \in Caught THEN LoadFrom(state, source, i + 1)
         ELSE [state |-> state, exc |-> entry.raises]

NoLoad == [called |-> FALSE, exc |-> "none", source |-> <<>>, before |-> {}]

(***************************************************************************)
(* AttentionLayer                                                          *)
(***************************************************************************)

\* Rationals <<numerator, denominator>>, denominators positive.
RatAdd(a, b) == <<a[1] * b[2] + b[1] * a[2], a[2] * b[2]>>
RatEq(a, b) == a[1] * b[2] = b[1] * a[2]

RECURSIVE RatSum(_)
RatSum(s) == IF s = <<>> THEN <<0, 1>> ELSE RatAdd(Head(s), RatSum(Tail(s)))

\* attn_weights / attn_weights.sum(dim=1).unsqueeze(1): each score divided
\* by the sum of the scores of its example and head over the nodes.
\* scores[e][n][h] is exp(attn(x) * temperature), a positive number.
NormaliseOverHeads(scores) ==
    [e \in DOMAIN scores |-> [n \in DOMAIN scores[e] |-> [h \in DOMAIN scores[e][n] |->
        <<scores[e][n][h],
          SumOver([k \in DOMAIN scores[e][n] |-> scores[e][n][k]], DOMAIN scores[e][n])>>]]]
Normalise(scores) ==
    [e \in DOMAIN scores |-> [n \in DOMAIN scores[e] |-> [h \in DOMAIN scores[e][n] |->
        <<scores[e][n][h],
          SumOver([m \in DOMAIN scores[e] |-> scores[e][m][h]], DOMAIN scores[e])>>]]]

\* Shapes: x.unsqueeze(-1) is (E, N, C, 1), attn_weights.unsqueeze(-2) is
\* (E, N, 1, H); their product (E, N, C, H), summed over dim 1, is (E, C, H)
\* and view(nb_examples, -1) flattens it.
BroadcastShape(a, b) == [k \in 1..Len(a) |-> Max(a[k], b[k])]
SumDim1(shape) == <<shape[1]>> \o SubSeq(shape, 3, Len(shape))
ViewFlat(shape, nb_examples) == <<nb_examples, Product(shape) \div nb_examples>>

AttentionPooledShape(x, heads) ==
    ViewFlat(SumDim1(BroadcastShape(<<x[1], x[2], x[3], 1>>, <<x[1], x[2], 1, heads>>)), x[1])

\* AttentionLayer.forward on x of shape (E, N, C) with the given scores.
AttentionForward(x, heads, scores) ==
    [called |-> TRUE, input |-> x, heads |-> heads,
     weights_shape |-> <<x[1], x[2], heads>>,
     weights |-> Normalise(scores),
     pooled_shape |-> AttentionPooledShape(x, heads)]

NoAtt == [called |-> FALSE, input |-> <<>>, heads |-> 0, weights_shape |-> <<>>,
          weights |-> <<>>, pooled_shape |-> <<>>]

\* The score tensors of a three-parameter family: every score in 1..MaxScore.
Scores(E, N, H, a, b, c) ==
    [e \in 1..E |-> [n \in 1..N |-> [h \in 1..H |-> 1 + ((a * e + b * n + c * h) % MaxScore)]]]

(***************************************************************************)
(* The operations                                                          *)
(***************************************************************************)

\* SparseLogisticRegression(nb_nodes, input_dim, adj, out_dim=None).
SLRConstruct ==
    /\ ~slr.built
    /\ \E d \in {1, MaxWidth} :
       \E a \in {FillDiagonal(adj)} :
         /\ adj' = a
         /\ slr' = [built |-> TRUE, nb_nodes |-> NbNodes, input_dim |-> d, out_dim |-> 2,
                    degree |-> Degree(a), laplacian |-> Laplacian(a)]
    /\ UNCHANGED <<slrOut, cfg, net, fwd, grads, nbwd, rep, own_state, load, att>>

\* SparseLogisticRegression.forward on x of shape (E, nb_nodes, C): the
\* Linear layer takes nb_nodes * input_dim values per example.
SLRForward ==
    /\ slr.built
    /\ \E E \in 1..MaxExamples, C \in {1, MaxWidth} :
         LET flat == ViewFlat(<<E, NbNodes, C>>, E) IN
         slrOut' = IF flat[2] = slr.nb_nodes * slr.input_dim
                   THEN [op |-> "forward", ok |-> TRUE, shape |-> <<E, slr.out_dim>>]
                   ELSE [op |-> "forward", ok |-> FALSE, shape |-> <<>>]
    /\ UNCHANGED <<adj, slr, cfg, net, fwd, grads, nbwd, rep, own_state, load, att>>

\* SparseLogisticRegression.regularization: |W| (out_dim x nb_nodes *
\* input_dim) times the Laplacian (nb_nodes x nb_nodes).
SLRRegularization ==
    /\ slr.built
    /\ slrOut' = [op |-> "regularization", shape |-> <<>>,
                  ok |-> slr.nb_nodes * slr.input_dim = Cardinality(DOMAIN slr.laplacian)]
    /\ UNCHANGED <<adj, slr, cfg, net, fwd, grads, nbwd, rep, own_state, load, att>>

\* GraphNetwork(**cfg): the adjacency is kept by reference.
Construct ==
    /\ ~net.built /\ net.exc = "none"
    /\ net' = Build(cfg)
    /\ own_state' = IF net'.built THEN InitialState(net', cfg) ELSE {}
    /\ UNCHANGED <<adj, slr, slrOut, cfg, fwd, grads, nbwd, rep, load, att>>

\* GraphNetwork.forward on an input of shape (E, nb_nodes, input_dim). The
\* attributes save_computations has set stay on the modules.
ForwardPass ==
    /\ net.built
    /\ \E E \in 1..MaxExamples :
       \E r \in {Forward(net, cfg, <<E, net.nb_nodes, cfg.input_dim>>)} :
         fwd' = [called |-> TRUE, graph |-> r.ok, input |-> <<E, net.nb_nodes, cfg.input_dim>>,
                 ok |-> r.ok, exc |-> r.exc, shape |-> r.shape, trace |-> r.trace,
                 hooks |-> r.hooks, saved |-> fwd.saved \cup r.saved]
    /\ UNCHANGED <<adj, slr, slrOut, cfg, net, grads, nbwd, rep, own_state, load, att>>

\* backward() on the output of the last forward call; the graph is freed.
Backward ==
    /\ fwd.called /\ fwd.ok /\ fwd.graph
    /\ nbwd < MaxPasses
    /\ nbwd' = nbwd + 1
    /\ grads' = RunHooks(grads, fwd.hooks, nbwd + 1)
    /\ fwd' = [fwd EXCEPT !.graph = FALSE]
    /\ UNCHANGED <<adj, slr, slrOut, cfg, net, rep, own_state, load, att>>

GetRepresentationCall ==
    /\ net.built
    /\ rep' = GetRepresentation(net, cfg, fwd.saved)
    /\ UNCHANGED <<adj, slr, slrOut, cfg, net, fwd, grads, nbwd, own_state, load, att>>

\* The source mappings: up to MaxEntries items under distinct names, the
\* model's own or another, each with what copying it does.
SourceEntries(names) ==
    [name : names \cup {<<"other", 0>>}, value : {1}, raises : CopyOutcomes]
Sources(names) ==
    UNION { {s \in [1..len -> SourceEntries(names)] :
                \A i, j \in 1..len : i # j => s[i].name # s[j].name} :
            len \in 0..MaxEntries }

LoadStateDict ==
    /\ net.built
    /\ \E source \in Sources(OwnNames(net, cfg)) :
       \E r \in {LoadFrom(own_state, source, 1)} :
         /\ own_state' = r.state
         /\ load' = [called |-> TRUE, exc |-> r.exc, source |-> source, before |-> own_state]
    /\ UNCHANGED <<adj, slr, slrOut, cfg, net, fwd, grads, nbwd, rep, att>>

\* AttentionLayer(C, H).forward on x of shape (E, N, C).
AttentionLayerForward ==
    /\ ~att.called
    /\ \E E \in 1..MaxExamples, N \in 1..NbNodes, C \in 1..MaxWidth, H \in 1..MaxHeads,
          a \in 0..(MaxScore - 1), b \in 0..(MaxScore - 1), c \in 0..(MaxScore - 1) :
         att' = AttentionForward(<<E, N, C>>, H, Scores(E, N, H, a, b, c))
    /\ UNCHANGED <<adj, slr, slrOut, cfg, net, fwd, grads, nbwd, rep, own_state, load>>

(***************************************************************************)
(* The specifications                                                      *)
(***************************************************************************)

\* Channel lists of up to maxLen widths, each 1 or MaxWidth.
ChannelLists(maxLen) == UNION { [1..len -> {1, MaxWidth}] : len \in 0..maxLen }

Configurations(inputDims, channelLists, outDims, embeddings, extras, gatings, dropouts, heads) ==
    [input_dim : inputDims, channels : channelLists, out_dim : outDims,
     embedding : embeddings, aggregate_adj : BOOLEAN, prepool_extralayers : extras,
     gating : gatings, dropout : dropouts, attention_head : heads]

DefaultCfg ==
    [input_dim |-> 1, channels |-> <<>>, out_dim |-> 0, embedding |-> 0,
     aggregate_adj |-> FALSE, prepool_extralayers |-> 0, gating |-> 0, dropout |-> 0,
     attention_head |-> 0]

\* Before anything is constructed.
NothingBuilt ==
    /\ slr = NoSlr
    /\ slrOut = NoOut
    /\ net = NoNet
    /\ fwd = NoFwd
    /\ grads = {}
    /\ nbwd = 0
    /\ rep = NoRep
    /\ own_state = {}
    /\ load = NoLoad
    /\ att = NoAtt

\* The ring with entries 1 and no self-loop.
RingAdj == AdjOf(Ring, [p \in Ring |-> 1], 0)

\* GraphNetwork: construction, passes and representation capture.
Init ==
    /\ adj = RingAdj
    /\ NothingBuilt
    /\ cfg \in Configurations({1, MaxWidth}, ChannelLists(MaxLayers), {0}, {0, 1, MaxWidth},
                            0..MaxExtra, {0, 1}, {0, 10}, {0, 1, MaxHeads})
Next == Construct \/ ForwardPass \/ Backward \/ GetRepresentationCall
Spec == Init /\ [][Next]_vars

\* GraphNetwork: construction of deep networks.
InitBuild ==
    /\ adj = RingAdj
    /\ NothingBuilt
    /\ cfg \in Configurations({1}, ChannelLists(MaxDepth), {0, 3}, {0, MaxWidth},
                            0..MaxExtra, {0, 1}, DropoutValues, {0, 1})
NextBuild == Construct
SpecBuild == InitBuild /\ [][NextBuild]_vars

\* GraphNetwork: parameter import.
InitLoad ==
    /\ adj = RingAdj
    /\ NothingBuilt
    /\ cfg \in Configurations({1}, {<<>>, <<1>>}, {0}, {0}, {0}, {0}, {0}, {0})
NextLoad == Construct \/ LoadStateDict
SpecLoad == InitLoad /\ [][NextLoad]_vars

\* SparseLogisticRegression over the adjacencies.
InitLap ==
    /\ \E S \in EdgeSets : \E w \in [S -> 1..MaxWeight] : \E d \in {0, MaxWeight} :
         adj = AdjOf(S, w, d)
    /\ cfg = DefaultCfg
    /\ NothingBuilt
NextLap == SLRConstruct \/ SLRForward \/ SLRRegularization
SpecLap == InitLap /\ [][NextLap]_vars

\* Both models on one adjacency array.
InitAdj ==
    /\ \E v \in 1..MaxWeight : \E d \in 0..MaxWeight : adj = AdjOf(Ring, [p \in Ring |-> v], d)
    /\ cfg = DefaultCfg
    /\ NothingBuilt
NextAdj ==
    \/ SLRConstruct \/ SLRForward \/ SLRRegularization
    \/ Construct \/ ForwardPass \/ GetRepresentationCall \/ LoadStateDict
SpecAdj == InitAdj /\ [][NextAdj]_vars

\* AttentionLayer alone.
InitAtt ==
    /\ adj = RingAdj
    /\ cfg = DefaultCfg
    /\ NothingBuilt
NextAtt == AttentionLayerForward
SpecAtt == InitAtt /\ [][NextAtt]_vars

(***************************************************************************)
(* The properties                                                          *)
(***************************************************************************)

ValueOf(state, name) == (CHOOSE e \in state : e.name = name).value
NamesOf(state) == {e.name : e \in state}

\* The first item of the last source mapping whose copy raised something
\* other than AttributeError or RuntimeError (one past the end: none did).
FirstUncaught ==
    LET bad == {i \in 1..Len(load.source) :
                  /\ load.source[i].name \in NamesOf(load.before)
                  /\ load.source[i].raises \notin {"none", "AttributeError", "RuntimeError"}}
    IN  IF bad = {} THEN Len(load.source) + 1
        ELSE CHOOSE i \in bad : \A j \in bad : i <= j

C2_ForwardShape ==
    fwd.called =>
        /\ fwd.ok
        /\ fwd.shape = <<fwd.input[1], IF cfg.out_dim = 0 THEN 2 ELSE cfg.out_dim>>

\* The keys get_representation is to return: one per constructed stage.
StageKeys ==
    (IF cfg.embedding # 0 THEN {<<"emb", 0>>} ELSE {})
    \cup {<<"layer", k - 1>> : k \in 1..Len(net.conv_layers)}
    \cup (IF cfg.gating > 0 THEN {<<"gate", k - 1>> : k \in 1..Len(net.gating_layers)} ELSE {})
    \cup {<<"logistic", 0>>}
    \cup (IF cfg.attention_head > 0 THEN {<<"attention", 0>>} ELSE {})

\* C3: after a completed forward pass get_representation returns, without
\* raising, a mapping with one entry per constructed stage.
C3_RepresentationReturned ==
    (rep.called /\ fwd.called /\ fwd.ok) => (rep.ok /\ rep.keys = StageKeys)

ConvEvents(trace) == SelectSeq(trace, LAMBDA ev : ev[1] = "conv")

\* The steps forward is to run for one stage, in order.
StageSteps(k) ==
    <<<<"conv", k>>>>
    \o (IF cfg.gating > 0 THEN <<<<"gate", k>>>> ELSE <<>>)
    \o <<<<"relu", k>>, <<"save_grad", <<"layer", k>>>>>>
    \o (IF Truthy(cfg.dropout) THEN <<<<"dropout", k>>>> ELSE <<>>)

RECURSIVE AllStageSteps(_, _)
AllStageSteps(k, n) == IF k >= n THEN <<>> ELSE StageSteps(k) \o AllStageSteps(k + 1, n)

\* C7: a completed forward pass has applied every constructed conv layer
\* once, in construction order, each followed by its gate (when gating),
\* relu, the gradient hook and the dropout mask (when dropout), and the
\* classifier after all of them.
C7_EveryConvLayerOnce ==
    (fwd.called /\ fwd.ok) =>
        /\ ConvEvents(fwd.trace) = [k \in 1..Len(net.conv_layers) |-> <<"conv", k - 1>>]
        /\ fwd.trace =
              (IF cfg.embedding # 0 THEN <<<<"emb", 0>>, <<"save_grad", <<"emb", 0>>>>>> ELSE <<>>)
              \o AllStageSteps(0, Len(net.conv_layers))
              \o (IF cfg.attention_head > 0 THEN <<<<"attention", 0>>>> ELSE <<>>)
              \o <<<<"logistic", 0>>, <<"save_grad", <<"logistic", 0>>>>>>

\* C8: the gate and dropout sequences are as long as the conv-layer
\* sequence; the gate at index k is built for the output width of the conv
\* layer at index k; entries are None exactly when the feature is disabled.
C8_SequencesAligned ==
    net.built =>
        /\ Len(net.gating_layers) = Len(net.conv_layers)
        /\ Len(net.dropout_layers) = Len(net.conv_layers)
        /\ \A k \in 1..Len(net.gating_layers) :
             /\ net.gating_layers[k].none <=> ~(cfg.gating > 0)
             /\ (k <= Len(net.conv_layers) /\ cfg.gating > 0)
                  => net.gating_layers[k].in_dim = net.conv_layers[k].c_out
        /\ \A k \in 1..Len(net.dropout_layers) :
             net.dropout_layers[k].none <=> ~Truthy(cfg.dropout)

\* min((i + 1) / 10, 0.4), in tenths.
Schedule(i) == IF i + 1 < 4 THEN i + 1 ELSE 4

LaplacianSymmetricAt(i, j) ==
    SameEntry(slr.laplacian[i][j], slr.laplacian[j][i], slr.degree)

\* C5, as claimed: the Laplacian of any square adjacency, asymmetric ones
\* included, is symmetric.
C5_LaplacianSymmetric ==
    slr.built => \A i, j \in Nodes : LaplacianSymmetricAt(i, j)

\* C5, amended: construction never raises, and L[i][j] = L[j][i] exactly
\* for the pairs with A[i][j] = A[j][i]: the Laplacian is symmetric when
\* the adjacency is (a node of degree zero included) and is not symmetric
\* when the adjacency is not.
C5_SymmetricWhereAdjacencyIs ==
    slr.built =>
        /\ \A i \in Nodes : adj[i][i] = 0 /\ slr.degree[i] > 0
        /\ \A i, j \in Nodes : LaplacianSymmetricAt(i, j) <=> (adj[i][j] = adj[j][i])

\* A symmetric adjacency with an edge and a node of degree zero, whose
\* Laplacian is symmetric.
C5_Witness ==
    /\ slr.built
    /\ \A i, j \in Nodes : adj[i][j] = adj[j][i] /\ LaplacianSymmetricAt(i, j)
    /\ \E i, j \in Nodes : adj[i][j] > 0
    /\ \E i \in Nodes : slr.degree[i] = 1

\* The weights of example e and head h along the node axis.
NodeWeights(e, h) == [n \in 1..att.input[2] |-> att.weights[e][n][h]]

\* C6: the weight tensor has shape (E, N, H) and for every example and
\* head its weights sum to 1 over the nodes; the pooled output has shape
\* (E, H * C).
C6_WeightsSumToOne ==
    att.called =>
        /\ att.weights_shape = <<att.input[1], att.input[2], att.heads>>
        /\ DOMAIN att.weights = 1..att.input[1]
        /\ \A e \in 1..att.input[1] :
             /\ DOMAIN att.weights[e] = 1..att.input[2]
             /\ \A n \in 1..att.input[2] : DOMAIN att.weights[e][n] = 1..att.heads
             /\ \A h \in 1..att.heads : RatEq(RatSum(NodeWeights(e, h)), <<1, 1>>)
        /\ att.pooled_shape = <<att.input[1], att.heads * att.input[3]>>

\* Two examples, two nodes, two heads and two channels, with weights that
\* differ between the nodes.
C6_Witness ==
    /\ att.called
    /\ att.input = <<2, 2, 2>> /\ att.heads = 2
    /\ ~RatEq(att.weights[1][1][1], att.weights[1][2][1])
    /\ att.pooled_shape = <<2, 4>>

\* The names the gradient hooks of a pass are registered under.
GradientNames ==
    (IF cfg.embedding # 0 THEN {<<"emb", 0>>} ELSE {})
    \cup {<<"layer", i>> : i \in 0..(Len(cfg.channels) - 1)}
    \cup {<<"logistic", 0>>}

\* C9: after any passes the store maps each stage name to exactly one
\* gradient, that of the most recent backward pass, and holds nothing else.
C9_LatestGradientOnly ==
    nbwd > 0 =>
        /\ {e.name : e \in grads} = GradientNames
        /\ Cardinality(grads) = Cardinality(GradientNames)
        /\ \A e \in grads : e.grad = nbwd

\* Two backward passes through an embedding and two stages.
C9_Witness ==
    /\ nbwd = 2
    /\ cfg.embedding # 0 /\ Len(cfg.channels) = 2
    /\ Cardinality(grads) = 4
    /\ \A e \in grads : e.grad = 2

\* C10: the only write to the adjacency is the zeroing of its diagonal when
\* SparseLogisticRegression is constructed, which leaves the off-diagonal
\* entries as they were; no other operation changes the adjacency, and no
\* operation changes the Laplacian once it is derived.
C10_AdjacencyFrame ==
    [][/\ \A i, j \in Nodes : adj'[i][j] = IF i = j /\ slr'.built /\ ~slr.built THEN 0 ELSE adj[i][j]
       /\ slr.built => (slr'.built /\ slr'.laplacian = slr.laplacian)]_vars

\* Both objects constructed on an adjacency with off-diagonal entries, and
\* every operation called.
C10_Witness ==
    /\ slr.built /\ net.built
    /\ slrOut.op = "regularization"
    /\ fwd.called /\ rep.called /\ load.called
    /\ \E i, j \in Nodes : i # j /\ adj[i][j] > 0
    /\ \A i \in Nodes : adj[i][i] = 0

====
